---------------------------- MODULE Spec2Model ----------------------------
(***************************************************************************)
(* A model of copy-struct/copyStruct.go: CopyStruct, the type-plan cache,  *)
(* the plan builder, the plan executor and the per-field converters.       *)
(*                                                                         *)
(* The code addresses fields by raw byte offsets (unsafe.Add) and reads    *)
(* and writes them through unsafe pointers, so the model keeps memory as   *)
(* bytes: an integer of width w is w little-endian bytes, a pointer is the *)
(* eight bytes of an address, a string is a 16-byte header (data pointer,  *)
(* length) whose text lives in a string table.  Record types are laid out  *)
(* with the gc compiler's rules for a 64-bit little-endian target.         *)
(*                                                                         *)
(* The modelled record types carry no `to` tag and have no float fields:   *)
(* time.Format and strconv.FormatFloat are outside the model.              *)
(***************************************************************************)
EXTENDS Integers, Sequences, FiniteSets, TLC

(***************************************************************************)
(* Bytes and decimal text (strconv.FormatInt / FormatUint, base 10).       *)
(***************************************************************************)
Digit == <<"0", "1", "2", "3", "4", "5", "6", "7", "8", "9">>

\* F applied to the value of e, e evaluated once
With(e, F(_)) == CHOOSE r \in {F(x) : x \in {e}} : TRUE

RECURSIVE ToBytes(_, _)
\* the n low bytes, little-endian, of the two's complement integer v
ToBytes(v, n) ==
  IF n = 0 THEN <<>>
  ELSE With(v, LAMBDA x : <<x % 256>> \o ToBytes(x \div 256, n - 1))

\* the value of little-endian bytes whose high six bytes are zero (addresses
\* and lengths of the model)
FromBytes(bs) == With(bs, LAMBDA b : b[1] + 256 * b[2])

IsZero(bs) == With(bs, LAMBDA b : \A i \in 1..Len(b) : b[i] = 0)

\* bs fits an address of the model: the high six bytes are zero
IsSmall(bs) == With(bs, LAMBDA b : \A i \in 3..Len(b) : b[i] = 0)

RECURSIVE Div10(_, _, _)
\* long division of the little-endian number bs[1..i] by ten, r the
\* remainder carried in from the higher bytes
Div10(bs, i, r) ==
  IF i = 0 THEN [q |-> <<>>, r |-> r]
  ELSE With(r * 256 + bs[i], LAMBDA cur :
         With(Div10(bs, i - 1, cur % 10), LAMBDA lo :
           [q |-> lo.q \o <<cur \div 10>>, r |-> lo.r]))

RECURSIVE FormatUint(_)
\* strconv.FormatUint(val, 10) of the unsigned number bs
FormatUint(bs) ==
  With(bs, LAMBDA b :
    With(Div10(b, Len(b), 0), LAMBDA d :
      IF IsZero(d.q) THEN Digit[d.r + 1]
      ELSE FormatUint(d.q) \o Digit[d.r + 1]))

RECURSIVE Incr(_)
Incr(bs) ==
  With(bs, LAMBDA b :
    IF b = <<>> THEN <<>>
    ELSE IF b[1] = 255 THEN <<0>> \o Incr(Tail(b))
    ELSE <<b[1] + 1>> \o Tail(b))

\* two's complement negation
Negate(bs) == With(bs, LAMBDA b : Incr([i \in 1..Len(b) |-> 255 - b[i]]))

\* strconv.FormatInt(val, 10) of the two's complement number bs
FormatInt(bs) ==
  With(bs, LAMBDA b :
    IF b[Len(b)] >= 128 THEN "-" \o FormatUint(Negate(b)) ELSE FormatUint(b))

\* strconv.FormatBool
FormatBool(b) == IF b THEN "true" ELSE "false"

\* bs widened to eight bytes, by sign when signed
Widen(bs, signed) ==
  With(bs, LAMBDA b :
    LET ext == IF signed /\ b[Len(b)] >= 128 THEN 255 ELSE 0
    IN  [i \in 1..8 |-> IF i <= Len(b) THEN b[i] ELSE ext])

(***************************************************************************)
(* The record types of the model, as reflect.Type describes them.          *)
(***************************************************************************)
Scalar(k) == [kind |-> k, elem |-> "", fields |-> <<>>]
PtrTo(t) == [kind |-> "ptr", elem |-> t, fields |-> <<>>]
Struct(fs) == [kind |-> "struct", elem |-> "", fields |-> fs]
Fld(n, t) == [name |-> n, type |-> t, exported |-> TRUE, embedded |-> FALSE]
Priv(n, t) == [name |-> n, type |-> t, exported |-> FALSE, embedded |-> FALSE]
Emb(n, t) == [name |-> n, type |-> t, exported |-> TRUE, embedded |-> TRUE]

SignedKinds == {"int", "int8", "int16", "int32", "int64"}
UnsignedKinds == {"uint", "uint8", "uint16", "uint32", "uint64"}
IntKinds == SignedKinds \cup UnsignedKinds
ScalarKinds == IntKinds \cup {"bool", "string"}

StructTypes ==
  (  "Ints"    :> Struct(<<Fld("A", "int8"), Fld("B", "uint8"), Fld("C", "int16"),
                           Fld("D", "uint16"), Fld("E", "int32"), Fld("F", "uint32"),
                           Fld("G", "int64"), Fld("H", "uint64"), Fld("I", "int"),
                           Fld("J", "uint")>>)
  @@ "IntsD"   :> Struct(<<Fld("A", "string"), Fld("B", "string"), Fld("C", "string"),
                           Fld("D", "string"), Fld("E", "string"), Fld("F", "string"),
                           Fld("G", "string"), Fld("H", "string"), Fld("I", "string"),
                           Fld("J", "string")>>)
  @@ "One"     :> Struct(<<Fld("A", "int32")>>)
  @@ "OneD"    :> Struct(<<Fld("A", "string")>>)
  @@ "Ptrs"    :> Struct(<<Fld("P", "*int64"), Fld("Q", "**int64"), Fld("R", "*bool")>>)
  @@ "PtrsD"   :> Struct(<<Fld("P", "string"), Fld("Q", "string"), Fld("R", "string")>>)
  @@ "Inner"   :> Struct(<<Fld("V", "int64"), Fld("W", "int32")>>)
  @@ "InnerD"  :> Struct(<<Fld("V", "string"), Fld("W", "int64")>>)
  @@ "InnerE"  :> Struct(<<Fld("V", "int64"), Fld("W", "int32")>>)
  @@ "Outer"   :> Struct(<<Fld("In", "*Inner")>>)
  @@ "OuterV"  :> Struct(<<Fld("In", "Inner")>>)
  @@ "OutPD"   :> Struct(<<Fld("In", "*InnerD")>>)
  @@ "OutVD"   :> Struct(<<Fld("In", "InnerD")>>)
  @@ "OutE"    :> Struct(<<Fld("In", "*InnerE")>>)
  @@ "Node"    :> Struct(<<Fld("V", "int64"), Fld("Next", "*Node")>>)
  @@ "NodeD"   :> Struct(<<Fld("V", "string"), Fld("Next", "*NodeD")>>)
  @@ "SrcF"    :> Struct(<<Fld("Name", "string"), Fld("Age", "int32"),
                           Fld("Only", "int64"), Priv("note", "int64"),
                           Priv("flag", "bool"), Fld("Kind", "bool")>>)
  @@ "DstF"    :> Struct(<<Fld("Age", "int64"), Fld("Name", "string"),
                           Fld("Keep", "int64"), Priv("note", "int64"),
                           Fld("Flag", "bool"), Fld("Kind", "int64")>>)
  @@ "SrcN"    :> Struct(<<Fld("Name", "string")>>)
  @@ "Base"    :> Struct(<<Fld("Name", "string")>>)
  @@ "DstEmb"  :> Struct(<<Fld("Keep", "int64"), Emb("Base", "Base")>>)
  @@ "DstEmbP" :> Struct(<<Fld("Keep", "int64"), Emb("Base", "*Base")>>) )

PtrTypes ==
  (  "*int64" :> PtrTo("int64") @@ "**int64" :> PtrTo("*int64")
  @@ "*bool" :> PtrTo("bool")
  @@ "*Inner" :> PtrTo("Inner") @@ "*InnerD" :> PtrTo("InnerD")
  @@ "*InnerE" :> PtrTo("InnerE") @@ "*Node" :> PtrTo("Node")
  @@ "*NodeD" :> PtrTo("NodeD") @@ "*Base" :> PtrTo("Base")
  @@ "*Outer" :> PtrTo("Outer") )

TypeOf == [k \in ScalarKinds |-> Scalar(k)] @@ StructTypes @@ PtrTypes

TypeNames == DOMAIN TypeOf

\* reflect.Type.Kind
Kind(t) == TypeOf[t].kind
\* reflect.Type.Elem of a pointer type
Elem(t) == TypeOf[t].elem
\* reflect.Type.NumField / Field
Fields(t) == TypeOf[t].fields

RoundUp(n, a) == ((n + a - 1) \div a) * a

\* reflect.Type.Size of a scalar kind (amd64)
ScalarSize(k) ==
  CASE k \in {"int8", "uint8", "bool"} -> 1
    [] k \in {"int16", "uint16"} -> 2
    [] k \in {"int32", "uint32"} -> 4
    [] k = "string" -> 16
    [] OTHER -> 8

\* reflect.Type.Size of the record types, as gc lays them out on amd64:
\* every field at the next multiple of its alignment, the size rounded up
\* to the largest alignment
StructSize ==
  [Ints |-> 48, IntsD |-> 160, One |-> 4, OneD |-> 16, Ptrs |-> 24, PtrsD |-> 48,
   Inner |-> 16, InnerD |-> 24, InnerE |-> 16, Outer |-> 8, OuterV |-> 16,
   OutPD |-> 8, OutVD |-> 24, OutE |-> 8, Node |-> 16, NodeD |-> 24,
   SrcF |-> 48, DstF |-> 56, SrcN |-> 16, Base |-> 16, DstEmb |-> 24,
   DstEmbP |-> 16]

\* reflect.StructField.Offset: the offset of field i within its own struct
OffsetTab ==
  [Ints |-> <<0, 1, 2, 4, 8, 12, 16, 24, 32, 40>>,
   IntsD |-> <<0, 16, 32, 48, 64, 80, 96, 112, 128, 144>>,
   One |-> <<0>>, OneD |-> <<0>>,
   Ptrs |-> <<0, 8, 16>>, PtrsD |-> <<0, 16, 32>>,
   Inner |-> <<0, 8>>, InnerD |-> <<0, 16>>, InnerE |-> <<0, 8>>,
   Outer |-> <<0>>, OuterV |-> <<0>>, OutPD |-> <<0>>, OutVD |-> <<0>>,
   OutE |-> <<0>>, Node |-> <<0, 8>>, NodeD |-> <<0, 16>>,
   SrcF |-> <<0, 16, 24, 32, 40, 41>>, DstF |-> <<0, 8, 24, 32, 40, 48>>,
   SrcN |-> <<0>>, Base |-> <<0>>, DstEmb |-> <<0, 8>>, DstEmbP |-> <<0, 8>>]

SizeTab ==
  [t \in TypeNames |->
     IF t \in DOMAIN StructSize THEN StructSize[t] ELSE ScalarSize(Kind(t))]


(***************************************************************************)
(* Memory.  Each call's objects live in one arena; an arena's bytes that   *)
(* belong to no object (padding, the bytes past an object) hold whatever   *)
(* the allocator left there.  Addresses below the first arena are the      *)
(* unmapped nil page.                                                      *)
(***************************************************************************)
NArenas == 2
ArenaSize == 288
Arenas == 1..NArenas
ArenaStride == 16 * 256
ArenaBase(ar) == ar * ArenaStride
\* where the text of string number i of arena ar is said to live
StrAddr(ar, i) == ArenaBase(ar) + ArenaSize + i

InArena(a, ar) == a >= ArenaBase(ar) /\ a < ArenaBase(ar) + ArenaSize
Readable(a, n) == \E ar \in Arenas : InArena(a, ar) /\ InArena(a + n - 1, ar)
\* a fault on the nil page is a run-time panic, any other one kills the process
NilPage(a) == a < ArenaStride

\* the byte at a: an object's byte, or what the arena holds between objects
Byte(h, a) ==
  IF a \in DOMAIN h.mem THEN h.mem[a] ELSE h.fill[a \div ArenaStride]

ReadBytes(h, a, n) == [i \in 1..n |-> Byte(h, a + i - 1)]

WriteBytes(h, a, bs) ==
  With(<<h, a, bs>>, LAMBDA w :
    [w[1] EXCEPT !.mem = [x \in w[2]..(w[2] + Len(w[3]) - 1) |-> w[3][x - w[2] + 1]] @@ @])

\* *(*unsafe.Pointer)(a): the address stored at a; -1 when the eight bytes
\* are no address of the model
ReadPtr(h, a) ==
  With(ReadBytes(h, a, 8), LAMBDA bs : IF IsSmall(bs) THEN FromBytes(bs) ELSE -1)

WritePtr(h, a, p) == WriteBytes(h, a, ToBytes(p, 8))

\* the text of the string header at a
ReadStr(h, a) ==
  With(<<ReadBytes(h, a, 8), ReadBytes(h, a + 8, 8)>>, LAMBDA pn :
    IF IsZero(pn[2]) THEN ""
    ELSE IF ~(IsSmall(pn[1]) /\ IsSmall(pn[2])) THEN "<corrupt>"
    ELSE LET q  == FromBytes(pn[1])
             ar == q \div ArenaStride
             i  == q - ArenaBase(ar) - ArenaSize
         IN  IF ar \in Arenas /\ i >= 1 /\ i <= Len(h.strs[ar])
                  /\ Len(h.strs[ar][i]) = FromBytes(pn[2])
               THEN h.strs[ar][i] ELSE "<corrupt>")

\* *(*string)(a) = s, the text of s freshly allocated in arena ar
WriteStr(h, a, s, ar) ==
  With(h, LAMBDA hh :
    IF s = "" THEN WriteBytes(hh, a, [i \in 1..16 |-> 0])
    ELSE WriteBytes([hh EXCEPT !.strs[ar] = Append(@, s)], a,
                    ToBytes(StrAddr(ar, Len(hh.strs[ar]) + 1), 8) \o ToBytes(Len(s), 8)))

\* a fresh zeroed object of type t in arena ar (reflect.New, new(T))
AllocAddr(h, ar) == RoundUp(h.brk[ar], 8)
Alloc(h, ar, t) ==
  With(h, LAMBDA hh :
    WriteBytes([hh EXCEPT !.brk[ar] = AllocAddr(hh, ar) + SizeTab[t]],
               AllocAddr(hh, ar), [i \in 1..SizeTab[t] |-> 0]))

(***************************************************************************)
(* Input values: an integer, a boolean, a text, a sequence of field values *)
(* for a record, and for a pointer Nil, Ref(v) or Self (a pointer back to  *)
(* the root record, which makes the graph cyclic).                         *)
(***************************************************************************)
Nil == [p |-> "nil"]
Ref(v) == [p |-> "ref", v |-> v]
Self == [p |-> "self"]

RECURSIVE Put(_, _, _, _, _, _)
\* the heap with value v of type t stored at a
Put(h, a, t, v, root, ar) ==
  With(h, LAMBDA hh :
    CASE Kind(t) = "struct" ->
           LET fs == Fields(t)
               RECURSIVE F(_, _)
               F(g, i) == IF i > Len(fs) THEN g
                          ELSE F(Put(g, a + OffsetTab[t][i], fs[i].type, v[i], root, ar), i + 1)
           IN  F(hh, 1)
      [] Kind(t) = "ptr" ->
           IF v.p = "nil" THEN WritePtr(hh, a, 0)
           ELSE IF v.p = "self" THEN WritePtr(hh, a, root)
           ELSE Put(WritePtr(Alloc(hh, ar, Elem(t)), a, AllocAddr(hh, ar)),
                    AllocAddr(hh, ar), Elem(t), v.v, root, ar)
      [] Kind(t) = "string" -> WriteStr(hh, a, v, ar)
      [] Kind(t) = "bool" -> WriteBytes(hh, a, <<IF v THEN 1 ELSE 0>>)
      [] OTHER -> WriteBytes(hh, a, ToBytes(v, SizeTab[t])))

(***************************************************************************)
(* Plan building: createTypeMapping, analyzeFieldMapping and the converter *)
(* constructors.  A converter is a record naming its kind and the types    *)
(* its closure captured; the captured srcType variable of converter i of   *)
(* plan instance id is the cell capt[id][i].                               *)
(***************************************************************************)
\* the fields reached through the embedded fields of t, one level down
EmbeddedType(e) == IF Kind(e.type) = "ptr" THEN Elem(e.type) ELSE e.type

Promoted(t, name) ==
  {c \in {<<i, j>> : i \in 1..Len(Fields(t)), j \in 1..4} :
     \E e \in {Fields(t)[c[1]]} :
        /\ e.embedded
        /\ \E et \in {EmbeddedType(e)} :
              /\ Kind(et) = "struct"
              /\ c[2] <= Len(Fields(et))
              /\ Fields(et)[c[2]].name = name}

NoField == [ok |-> FALSE, f |-> Fld("", ""), Offset |-> 0, Index |-> <<>>]

OwnField(t, i) ==
  [ok |-> TRUE, f |-> Fields(t)[i], Offset |-> OffsetTab[t][i], Index |-> <<i>>]

PromotedField(t, c) ==
  With(EmbeddedType(Fields(t)[c[1]]), LAMBDA et :
    [ok |-> TRUE, f |-> Fields(et)[c[2]], Offset |-> OffsetTab[et][c[2]],
     Index |-> c])

\* reflect.Type.FieldByName: a field of t itself, else a field promoted from
\* an embedded record when exactly one has the name.  A promoted field's
\* Offset is its offset within the embedded record.
FieldByName(t, name) ==
  With({i \in 1..Len(Fields(t)) : Fields(t)[i].name = name}, LAMBDA own :
    IF own # {} THEN OwnField(t, CHOOSE i \in own : TRUE)
    ELSE With(Promoted(t, name), LAMBDA pro :
           IF Cardinality(pro) = 1 THEN PromotedField(t, CHOOSE c \in pro : TRUE)
           ELSE NoField))

\* reflect.Value.FieldByName(name).CanSet() on the addressable record of
\* type t at address a, r being FieldByName(t, name): "panic" when the field
\* is promoted through a nil embedded pointer (FieldByIndex), else whether
\* the field is exported
CanSet(h, a, t, r) ==
  IF Len(r.Index) = 2 /\ Kind(Fields(t)[r.Index[1]].type) = "ptr"
       /\ ReadPtr(h, a + OffsetTab[t][r.Index[1]]) = 0
    THEN "panic"
  ELSE IF r.f.exported THEN "yes" ELSE "no"

\* the struct types' underlying types are identical (tags ignored)
SameFields(a, b) ==
  /\ Len(Fields(a)) = Len(Fields(b))
  /\ \A i \in 1..Len(Fields(a)) :
        /\ Fields(a)[i].name = Fields(b)[i].name
        /\ Fields(a)[i].type = Fields(b)[i].type
        /\ Fields(a)[i].embedded = Fields(b)[i].embedded

IdenticalUnderlying(a, b) ==
  \/ a = b
  \/ Kind(a) = "struct" /\ Kind(b) = "struct" /\ SameFields(a, b)

\* reflect.Type.ConvertibleTo, for the kinds of the model
ConvertibleTo(src, dst) ==
  \/ Kind(src) \in IntKinds /\ Kind(dst) \in IntKinds \cup {"string"}
  \/ IdenticalUnderlying(src, dst)
  \/ /\ Kind(src) = "ptr" /\ Kind(dst) = "ptr"
     /\ IdenticalUnderlying(Elem(src), Elem(dst))

\* isNestedType
isNestedType(src, dest) ==
  LET isSrcStruct  == \/ Kind(src) = "struct"
                      \/ Kind(src) = "ptr" /\ Kind(Elem(src)) = "struct"
      isDestStruct == \/ Kind(dest) = "struct"
                      \/ Kind(dest) = "ptr" /\ Kind(Elem(dest)) = "struct"
  IN  isSrcStruct /\ isDestStruct

RECURSIVE isBasicToStringConvertible(_, _)
isBasicToStringConvertible(srcType, destType) ==
  IF Kind(destType) # "string" THEN FALSE
  ELSE IF Kind(srcType) \in IntKinds \cup {"bool"} THEN TRUE
  ELSE IF Kind(srcType) = "ptr" THEN isBasicToStringConvertible(Elem(srcType), destType)
  ELSE FALSE

NoConverter == [k |-> "nil", st |-> "", dt |-> ""]

createBasicToStringConverter(srcType) ==
  [k |-> "tostr", st |-> srcType, dt |-> "string"]

createNestedConverter(srcType, destType) ==
  [k |-> "nested", st |-> srcType, dt |-> destType]

createBasicConverter(srcType, destType) ==
  IF ConvertibleTo(srcType, destType)
    THEN [k |-> "basic", st |-> srcType, dt |-> destType]
  ELSE IF isBasicToStringConvertible(srcType, destType)
    THEN createBasicToStringConverter(srcType)
  ELSE NoConverter

createConverter(srcType, destType, m) ==
  CASE m.timeLayout # "" -> [k |-> "time", st |-> srcType, dt |-> destType]
    [] m.isNested -> createNestedConverter(srcType, destType)
    [] OTHER -> createBasicConverter(srcType, destType)

\* which converter analyzeFieldMapping ends with
chooseConverter(srcType, destType, m) ==
  IF isBasicToStringConvertible(srcType, destType)
    THEN createBasicToStringConverter(srcType)
  ELSE IF ConvertibleTo(srcType, destType)
    THEN createBasicConverter(srcType, destType)
  ELSE createConverter(srcType, destType, m)

analyzeFieldMapping(srcField, srcOffset, destField, destOffset) ==
  LET m == [srcOffset |-> srcOffset, destOffset |-> destOffset,
            timeLayout |-> "",
            isNested |-> isNestedType(srcField.type, destField.type)]
  IN  [srcOffset |-> m.srcOffset, destOffset |-> m.destOffset,
       timeLayout |-> m.timeLayout, isNested |-> m.isNested,
       converter |-> chooseConverter(srcField.type, destField.type, m)]

\* createTypeMapping's loop body for source field i: the field is skipped
\* (no field of that name, or not settable), FieldByName panics, or the
\* field gets a mapping
fieldMapping(h, srcType, destType, destAddr, i) ==
  With(FieldByName(destType, Fields(srcType)[i].name), LAMBDA d :
    IF ~d.ok THEN [r |-> "skip"]
    ELSE With(CanSet(h, destAddr, destType, d), LAMBDA s :
           IF s = "panic" THEN [r |-> "panic"]
           ELSE IF s = "no" THEN [r |-> "skip"]
           ELSE [r |-> "map",
                 m |-> analyzeFieldMapping(Fields(srcType)[i], OffsetTab[srcType][i],
                                           d.f, d.Offset)]))

\* createTypeMapping: whether it panics, else the mappings in source field order
createTypeMapping(h, srcType, destType, destAddr) ==
  With([i \in 1..Len(Fields(srcType)) |->
          fieldMapping(h, srcType, destType, destAddr, i)], LAMBDA ms :
    IF \E i \in DOMAIN ms : ms[i].r = "panic" THEN [panic |-> TRUE, maps |-> <<>>]
    ELSE LET RECURSIVE kept(_)
             kept(i) == IF i = 0 THEN <<>>
                        ELSE IF ms[i].r = "skip" THEN kept(i - 1)
                        ELSE Append(kept(i - 1), ms[i].m)
         IN  [panic |-> FALSE, maps |-> kept(Len(ms))])


(***************************************************************************)
(* Converters at run time.                                                 *)
(***************************************************************************)
\* createBasicConverter's closure: destVal.Set(srcVal.Convert(destType)).
\* Integer kinds convert by width and sign; every other convertible pair of
\* the model has one representation, which Set copies.
basicConvert(h, src, dest, srcType, destType) ==
  IF Kind(srcType) \in IntKinds /\ Kind(destType) \in IntKinds
    THEN LET wide == Widen(ReadBytes(h, src, SizeTab[srcType]),
                           Kind(srcType) \in SignedKinds)
         IN  WriteBytes(h, dest, SubSeq(wide, 1, SizeTab[destType]))
  ELSE WriteBytes(h, dest, ReadBytes(h, src, SizeTab[srcType]))

\* the values *(*bool)(src) may yield for a byte
BoolOf(b) == IF b = 0 THEN {FALSE} ELSE IF b = 1 THEN {TRUE} ELSE {TRUE, FALSE}

\* the number of bytes the scalar-to-text converter loads for kind k
toStringWidth(k) == IF k = "bool" THEN 1 ELSE 8

\* the text the scalar-to-text converter writes for kind k from the loaded bytes
toStringText(k, bs, b) ==
  CASE k \in SignedKinds -> FormatInt(bs)
    [] k \in UnsignedKinds -> FormatUint(bs)
    [] OTHER -> FormatBool(b)

(***************************************************************************)
(* Calls.  A scenario is one CopyStruct(src, dest) call: the form and type *)
(* of each argument and the values the caller placed behind them.          *)
(***************************************************************************)
Arg(form, t) == [form |-> form, t |-> t]
Call(suite, src, sv, dst, dv, fill, twin) ==
  [suite |-> suite, src |-> src, sv |-> sv, dst |-> dst, dv |-> dv,
   fill |-> fill, twin |-> twin]

Empty10 == <<"", "", "", "", "", "", "", "", "", "">>
Small10 == <<1, 2, 3, 4, 5, 6, 7, 8, 9, 10>>
Neg10 == <<-1, -1, -2, -2, -3, -3, -4, -4, -5, -5>>
Lone10 == <<0, 0, 0, 0, 0, 0, 77, 78, 79, 80>>

InnerV == <<3, 4>>
InnerDV == <<"old", 9>>
SrcFV == <<"bob", 30, 5, 6, TRUE, TRUE>>
DstFV == <<1, "old", 11, 12, TRUE, 13>>
PtrsSet == <<Ref(7), Ref(Ref(-5)), Ref(TRUE)>>
PtrsHalf == <<Ref(9), Ref(Nil), Nil>>
PtrsNil == <<Nil, Nil, Nil>>
Old3 == <<"p", "q", "r">>

ScenarioTab ==
  (  "ints/lone"   :> Call("ints", Arg("ptr", "Ints"), Lone10, Arg("ptr", "IntsD"), Empty10, 0, "ints/lone/v")
  @@ "ints/lone/v" :> Call("ints", Arg("val", "Ints"), Lone10, Arg("ptr", "IntsD"), Empty10, 0, "")
  @@ "ints/small"  :> Call("ints", Arg("ptr", "Ints"), Small10, Arg("ptr", "IntsD"), Empty10, 0, "")
  @@ "ints/neg"    :> Call("ints", Arg("ptr", "Ints"), Neg10, Arg("ptr", "IntsD"), Empty10, 0, "")
  @@ "ints/one"    :> Call("ints", Arg("ptr", "One"), <<5>>, Arg("ptr", "OneD"), <<"">>, 0, "")
  @@ "ints/one/ff" :> Call("ints", Arg("ptr", "One"), <<5>>, Arg("ptr", "OneD"), <<"">>, 255, "")
  @@ "ints/one/n"  :> Call("ints", Arg("ptr", "One"), <<-7>>, Arg("ptr", "OneD"), <<"">>, 0, "")
  @@ "ptrs/nil"    :> Call("ptrs", Arg("ptr", "Ptrs"), PtrsNil, Arg("ptr", "PtrsD"), Old3, 0, "")
  @@ "ptrs/set"    :> Call("ptrs", Arg("ptr", "Ptrs"), PtrsSet, Arg("ptr", "PtrsD"), Old3, 0, "")
  @@ "ptrs/set/ff" :> Call("ptrs", Arg("ptr", "Ptrs"), PtrsSet, Arg("ptr", "PtrsD"), Old3, 255, "")
  @@ "ptrs/half"   :> Call("ptrs", Arg("ptr", "Ptrs"), PtrsHalf, Arg("ptr", "PtrsD"), Old3, 0, "")
  @@ "nest/pd"     :> Call("nest", Arg("ptr", "Outer"), <<Ref(InnerV)>>, Arg("ptr", "OutPD"), <<Nil>>, 0, "")
  @@ "nest/pd/old" :> Call("nest", Arg("ptr", "Outer"), <<Ref(InnerV)>>, Arg("ptr", "OutPD"), <<Ref(InnerDV)>>, 0, "")
  @@ "nest/pd/nil" :> Call("nest", Arg("ptr", "Outer"), <<Nil>>, Arg("ptr", "OutPD"), <<Ref(InnerDV)>>, 0, "")
  @@ "nest/pd/nn"  :> Call("nest", Arg("ptr", "Outer"), <<Nil>>, Arg("ptr", "OutPD"), <<Nil>>, 0, "")
  @@ "nest/vd"     :> Call("nest", Arg("ptr", "Outer"), <<Ref(InnerV)>>, Arg("ptr", "OutVD"), <<InnerDV>>, 0, "")
  @@ "nest/vd/nil" :> Call("nest", Arg("ptr", "Outer"), <<Nil>>, Arg("ptr", "OutVD"), <<InnerDV>>, 0, "")
  @@ "nest/same"   :> Call("nest", Arg("ptr", "Outer"), <<Ref(InnerV)>>, Arg("ptr", "Outer"), <<Nil>>, 0, "")
  @@ "nest/same/nil" :> Call("nest", Arg("ptr", "Outer"), <<Nil>>, Arg("ptr", "Outer"), <<Ref(<<1, 2>>)>>, 0, "")
  @@ "nest/e"      :> Call("nest", Arg("ptr", "Outer"), <<Ref(InnerV)>>, Arg("ptr", "OutE"), <<Nil>>, 0, "")
  @@ "nest/e/nil"  :> Call("nest", Arg("ptr", "Outer"), <<Nil>>, Arg("ptr", "OutE"), <<Ref(<<1, 2>>)>>, 0, "")
  @@ "nest/v/pd"   :> Call("nest", Arg("ptr", "OuterV"), <<InnerV>>, Arg("ptr", "OutPD"), <<Nil>>, 0, "")
  @@ "nest/back"   :> Call("nest", Arg("ptr", "OutPD"), <<Ref(<<"x", 5>>)>>, Arg("ptr", "Outer"), <<Nil>>, 0, "")
  @@ "list/1"      :> Call("list", Arg("ptr", "Node"), <<1, Nil>>, Arg("ptr", "NodeD"), <<"", Nil>>, 0, "")
  @@ "list/2"      :> Call("list", Arg("ptr", "Node"), <<1, Ref(<<2, Nil>>)>>, Arg("ptr", "NodeD"), <<"", Nil>>, 0, "")
  @@ "list/3"      :> Call("list", Arg("ptr", "Node"), <<1, Ref(<<2, Ref(<<3, Nil>>)>>)>>, Arg("ptr", "NodeD"), <<"", Nil>>, 0, "")
  @@ "list/cyc"    :> Call("list", Arg("ptr", "Node"), <<1, Ref(<<2, Self>>)>>, Arg("ptr", "NodeD"), <<"", Nil>>, 0, "")
  @@ "list/same"   :> Call("list", Arg("ptr", "Node"), <<1, Ref(<<2, Nil>>)>>, Arg("ptr", "Node"), <<0, Nil>>, 0, "")
  @@ "list/same/cyc" :> Call("list", Arg("ptr", "Node"), <<1, Self>>, Arg("ptr", "Node"), <<0, Nil>>, 0, "")
  @@ "list/back"   :> Call("list", Arg("ptr", "NodeD"), <<"a", Ref(<<"b", Nil>>)>>, Arg("ptr", "Node"), <<0, Nil>>, 0, "")
  @@ "frame/f"     :> Call("frame", Arg("ptr", "SrcF"), SrcFV, Arg("ptr", "DstF"), DstFV, 0, "frame/f/v")
  @@ "frame/f/v"   :> Call("frame", Arg("val", "SrcF"), SrcFV, Arg("ptr", "DstF"), DstFV, 0, "")
  @@ "frame/emb"   :> Call("frame", Arg("ptr", "SrcN"), <<"bob">>, Arg("ptr", "DstEmb"), <<11, <<"old">>>>, 0, "")
  @@ "frame/embp"  :> Call("frame", Arg("ptr", "SrcN"), <<"bob">>, Arg("ptr", "DstEmbP"), <<11, Ref(<<"old">>)>>, 0, "")
  @@ "frame/embp/nil" :> Call("frame", Arg("ptr", "SrcN"), <<"bob">>, Arg("ptr", "DstEmbP"), <<11, Nil>>, 0, "")
  @@ "inv/ok"      :> Call("inv", Arg("ptr", "SrcN"), <<"bob">>, Arg("ptr", "Base"), <<"old">>, 0, "")
  @@ "inv/srcnil"  :> Call("inv", Arg("nil", ""), 0, Arg("ptr", "Base"), <<"old">>, 0, "")
  @@ "inv/dstnil"  :> Call("inv", Arg("ptr", "SrcN"), <<"bob">>, Arg("nil", ""), 0, 0, "")
  @@ "inv/dstval"  :> Call("inv", Arg("ptr", "SrcN"), <<"bob">>, Arg("val", "Base"), <<"old">>, 0, "")
  @@ "inv/dstint"  :> Call("inv", Arg("ptr", "SrcN"), <<"bob">>, Arg("ptr", "int64"), 11, 0, "")
  @@ "inv/dstnilptr" :> Call("inv", Arg("ptr", "SrcN"), <<"bob">>, Arg("nilptr", "Base"), 0, 0, "")
  @@ "inv/dstpp"   :> Call("inv", Arg("ptr", "SrcN"), <<"bob">>, Arg("ptr", "*Base"), Ref(<<"old">>), 0, "")
  @@ "inv/srcnilptr" :> Call("inv", Arg("nilptr", "SrcN"), 0, Arg("ptr", "Base"), <<"old">>, 0, "")
  @@ "inv/srcint"  :> Call("inv", Arg("val", "int64"), 5, Arg("ptr", "Base"), <<"old">>, 0, "")
  @@ "inv/srcpint" :> Call("inv", Arg("ptr", "int64"), 5, Arg("ptr", "Base"), <<"old">>, 0, "")
  @@ "inv/srcpp"   :> Call("inv", Arg("ptr", "*Base"), Ref(<<"bob">>), Arg("ptr", "Base"), <<"old">>, 0, "")
  @@ "conc/set"    :> Call("conc", Arg("ptr", "Ptrs"), PtrsSet, Arg("ptr", "PtrsD"), Old3, 0, "")
  @@ "conc/half"   :> Call("conc", Arg("ptr", "Ptrs"), PtrsHalf, Arg("ptr", "PtrsD"), Old3, 0, "")
  )

Scenarios(suite) == {n \in DOMAIN ScenarioTab : ScenarioTab[n].suite = suite}
Suites == {ScenarioTab[n].suite : n \in DOMAIN ScenarioTab}
ConcurrentSuites == {"conc"}

\* the arena cleared for a new call and the arguments' values placed in it
Setup(h, ar, sc) ==
  LET c  == ScenarioTab[sc]
      hasS == c.src.form \in {"ptr", "val"}
      hasD == c.dst.form \in {"ptr", "val"}
      h0 == [mem  |-> [x \in {y \in DOMAIN h.mem : ~InArena(y, ar)} |-> h.mem[x]],
             fill |-> [h.fill EXCEPT ![ar] = c.fill],
             brk  |-> [h.brk EXCEPT ![ar] = ArenaBase(ar) + 8],
             strs |-> [h.strs EXCEPT ![ar] = <<>>]]
      place(hh, has, t, v) ==
        IF has THEN Put(Alloc(hh, ar, t), AllocAddr(hh, ar), t, v, AllocAddr(hh, ar), ar)
        ELSE hh
  IN  With(h0, LAMBDA g0 :
        With(place(g0, hasS, c.src.t, c.sv), LAMBDA g1 :
          With(place(g1, hasD, c.dst.t, c.dv), LAMBDA g2 :
            [h |-> g2,
             srcp |-> IF hasS THEN AllocAddr(g0, ar) ELSE 0,
             dstp |-> IF hasD THEN AllocAddr(g1, ar) ELSE 0])))

RECURSIVE View(_, _, _, _)
\* the value of type t at a as the caller reads it afterwards: texts,
\* integer bytes, and what pointers lead to (d levels deep)
View(h, t, a, d) ==
  CASE Kind(t) = "struct" ->
         [i \in 1..Len(Fields(t)) |-> View(h, Fields(t)[i].type, a + OffsetTab[t][i], d)]
    [] Kind(t) = "ptr" ->
         LET q == ReadPtr(h, a)
         IN  IF q = 0 THEN <<"nil">>
             ELSE IF d = 0 \/ ~Readable(q, SizeTab[Elem(t)]) THEN <<"ptr">>
             ELSE <<"ref", View(h, Elem(t), q, d - 1)>>
    [] Kind(t) = "string" -> ReadStr(h, a)
    [] OTHER -> ReadBytes(h, a, SizeTab[t])

(***************************************************************************)
(* State.                                                                  *)
(***************************************************************************)
VARIABLES
  suite,    \* the family of calls this run draws from
  heap,     \* [mem, fill, brk, strs]: the objects' bytes, and per arena the bytes
            \* between objects, the allocation mark and the texts
  cache,    \* typeCache: <<source type, destination type>> -> plan
  capt,     \* capt[id][i]: the srcType variable captured by converter i of plan id
  gor,      \* the calling goroutines
  ncalls,   \* calls started
  builds,   \* per type pair, the runs of createTypeMapping begun
  faults    \* per type pair, the runs of createTypeMapping that panicked

vars == <<suite, heap, cache, capt, gor, ncalls, builds, faults>>

MaxCalls == 2
MaxDepth == 4
ViewDepth == 4
NProcs == 2
Procs == 1..NProcs

NoPlan == [id |-> 0, maps |-> <<>>]
NoPrev == [sc |-> "", ret |-> "", view |-> <<>>]
Idle == [st |-> "idle", sc |-> "", ar |-> 0, srcp |-> 0, dstp |-> 0,
         stack |-> <<>>, ret |-> "", prev |-> NoPrev]

Frame(srcT, dstT, src, dst, addressable) ==
  [srcT |-> srcT, dstT |-> dstT, src |-> src, dst |-> dst,
   addressable |-> addressable, pc |-> "load", plan |-> NoPlan, i |-> 0,
   csrc |-> 0, ctmp |-> ""]

Top(g) == gor[g].stack[Len(gor[g].stack)]
Running(g, pc) == gor[g].st = "run" /\ Top(g).pc = pc
SetTop(g, f) == [gor EXCEPT ![g].stack[Len(gor[g].stack)] = f]
Count(f, k) == IF k \in DOMAIN f THEN f[k] ELSE 0

\* CopyStruct's recover: the call returns "copy panic: ..."
Panic(g) == [gor EXCEPT ![g].st = "done", ![g].ret = "panic", ![g].stack = <<>>]
\* a fault recover cannot catch: the process dies
Fatal == [g \in Procs |-> IF gor[g].st = "run"
                            THEN [gor[g] EXCEPT !.st = "done", !.ret = "fatal", !.stack = <<>>]
                          ELSE gor[g]]
\* the fault of a load of n bytes at a
Fault(g, a) == IF NilPage(a) /\ a >= 0 THEN Panic(g) ELSE Fatal

\* what the caller sees once a call has returned
Outcome(g) ==
  LET c == ScenarioTab[gor[g].sc]
  IN  [sc |-> gor[g].sc, ret |-> gor[g].ret,
       view |-> IF c.dst.form \in {"ptr", "val"}
                  THEN View(heap, c.dst.t, gor[g].dstp, ViewDepth) ELSE <<>>]

Init ==
  /\ suite \in Suites
  /\ heap = [mem |-> <<>>,
             fill |-> [ar \in Arenas |-> 0],
             brk |-> [ar \in Arenas |-> ArenaBase(ar)],
             strs |-> [ar \in Arenas |-> <<>>]]
  /\ cache = <<>>
  /\ capt = <<>>
  /\ gor = [g \in Procs |-> Idle]
  /\ ncalls = 0
  /\ builds = <<>>
  /\ faults = <<>>

\* CopyStruct, lines 44-51: "" when the arguments pass, else the error
destError(c) ==
  IF c.src.form = "nil" \/ c.dst.form = "nil" THEN "source or destination is nil"
  ELSE IF c.dst.form # "ptr" \/ Kind(c.dst.t) # "struct"
    THEN "destination must be a pointer to struct"
  ELSE ""

\* the source check without the nil pointer case
srcErrorKindOnly(c) ==
  IF Kind(c.src.t) # "struct" THEN "source must be a struct" ELSE ""

\* CopyStruct lines 53-56 and copyStructRecursive lines 63-65
srcError(c) ==
  IF c.src.form = "nilptr" \/ Kind(c.src.t) # "struct"
    THEN "source must be a struct" ELSE ""

\* CopyStruct up to the plan lookup of copyStructRecursive
CopyStruct(g) ==
  /\ gor[g].st \in {"idle", "done"}
  /\ ncalls < MaxCalls
  /\ g = 1 \/ suite \in ConcurrentSuites
  /\ \E sc \in Scenarios(suite) :
     \E ar \in {a \in Arenas : \A o \in Procs \ {g} : gor[o].ar # a} :
       \E s \in {Setup(heap, ar, sc)} :
       LET c  == ScenarioTab[sc]
           pv == IF gor[g].st = "done" THEN Outcome(g) ELSE NoPrev
           g1 == [Idle EXCEPT !.sc = sc, !.ar = ar, !.srcp = s.srcp,
                              !.dstp = s.dstp, !.prev = pv]
       IN  /\ heap' = s.h
           /\ ncalls' = ncalls + 1
           /\ IF destError(c) # "" \/ srcError(c) # ""
                THEN gor' = [gor EXCEPT ![g] = [g1 EXCEPT !.st = "done", !.ret = "invalid"]]
              ELSE gor' = [gor EXCEPT ![g] =
                     [g1 EXCEPT !.st = "run",
                                !.stack = <<Frame(c.src.t, c.dst.t, s.srcp, s.dstp,
                                                  c.src.form = "ptr")>>]]
  /\ UNCHANGED <<suite, cache, capt, builds, faults>>

\* a lookup that never finds the stored plan
LoadPlanMiss(g) ==
  /\ Running(g, "load")
  /\ gor' = SetTop(g, [Top(g) EXCEPT !.pc = "build"])
  /\ UNCHANGED <<suite, heap, cache, capt, ncalls, builds, faults>>

\* copyStructRecursive line 72: typeCache.Load
LoadPlan(g) ==
  /\ Running(g, "load")
  /\ LET f == Top(g)
         key == <<f.srcT, f.dstT>>
     IN  IF key \in DOMAIN cache
           THEN gor' = SetTop(g, [f EXCEPT !.pc = "begin", !.plan = cache[key]])
         ELSE gor' = SetTop(g, [f EXCEPT !.pc = "build"])
  /\ UNCHANGED <<suite, heap, cache, capt, ncalls, builds, faults>>

\* copyStructRecursive lines 76-77: createTypeMapping, typeCache.Store
BuildPlan(g) ==
  /\ Running(g, "build")
  /\ LET f == Top(g)
         key == <<f.srcT, f.dstT>>
     IN  /\ builds' = (key :> (Count(builds, key) + 1)) @@ builds
         /\ \E tm \in {createTypeMapping(heap, f.srcT, f.dstT, f.dst)} :
              IF tm.panic
                THEN /\ gor' = Panic(g)
                     /\ faults' = (key :> (Count(faults, key) + 1)) @@ faults
                     /\ UNCHANGED <<cache, capt>>
              ELSE \E plan \in {[id |-> Len(capt) + 1, maps |-> tm.maps]} :
                     /\ capt' = Append(capt, [i \in 1..Len(tm.maps) |-> tm.maps[i].converter.st])
                     /\ cache' = (key :> plan) @@ cache
                     /\ gor' = SetTop(g, [f EXCEPT !.pc = "begin", !.plan = plan])
                     /\ UNCHANGED faults
  /\ UNCHANGED <<suite, heap, ncalls>>

\* applyFieldMappings lines 148-149: UnsafeAddr panics on a value that is
\* not addressable
BeginApply(g) ==
  /\ Running(g, "begin")
  /\ IF Top(g).addressable
       THEN gor' = SetTop(g, [Top(g) EXCEPT !.pc = "loop", !.i = 1])
     ELSE gor' = Panic(g)
  /\ UNCHANGED <<suite, heap, cache, capt, ncalls, builds, faults>>

\* the converter of the current step returned nil
StepDone(g) == SetTop(g, [Top(g) EXCEPT !.pc = "loop", !.i = @ + 1, !.csrc = 0, !.ctmp = ""])

\* applyFieldMappings returns nil: the call is over, or the nested converter
\* that made it returns to its caller's loop
Return(g) ==
  /\ Running(g, "loop")
  /\ Top(g).i > Len(Top(g).plan.maps)
  /\ IF Len(gor[g].stack) = 1
       THEN gor' = [gor EXCEPT ![g].st = "done", ![g].ret = "ok", ![g].stack = <<>>]
     ELSE LET up == SubSeq(gor[g].stack, 1, Len(gor[g].stack) - 1)
              p  == up[Len(up)]
          IN  gor' = [gor EXCEPT ![g].stack =
                        [up EXCEPT ![Len(up)] = [p EXCEPT !.i = @ + 1]]]
  /\ UNCHANGED <<suite, heap, cache, capt, ncalls, builds, faults>>

\* a step with no converter, or with createBasicConverter's closure
ApplyBasic(g) ==
  /\ Running(g, "loop")
  /\ Top(g).i <= Len(Top(g).plan.maps)
  /\ LET f == Top(g)
         m == f.plan.maps[f.i]
     IN  /\ m.converter.k \in {"nil", "basic"}
         /\ heap' = IF m.converter.k = "nil" THEN heap
                    ELSE basicConvert(heap, f.src + m.srcOffset, f.dst + m.destOffset,
                                      m.converter.st, m.converter.dt)
  /\ gor' = StepDone(g)
  /\ UNCHANGED <<suite, cache, capt, ncalls, builds, faults>>

\* a nested converter that does not test the source pointer
nilSourceIgnored(srcIsPtr, srcPtr) == FALSE

\* lines 207-211: the source field is a nil pointer
nilSource(srcIsPtr, srcPtr) == srcIsPtr /\ srcPtr = 0

\* createNestedConverter's closure, lines 204-232
ApplyNested(g) ==
  /\ Running(g, "loop")
  /\ Top(g).i <= Len(Top(g).plan.maps)
  /\ LET f == Top(g)
         m == f.plan.maps[f.i]
         c == m.converter
         src == f.src + m.srcOffset
         dest == f.dst + m.destOffset
         srcIsPtr == Kind(c.st) = "ptr"
         destIsPtr == Kind(c.dt) = "ptr"
         srcPtr == ReadPtr(heap, src)
         srcT == IF srcIsPtr THEN Elem(c.st) ELSE c.st
         dstT == IF destIsPtr THEN Elem(c.dt) ELSE c.dt
         fresh == destIsPtr /\ ReadPtr(heap, dest) = 0
         h1 == IF fresh
                 THEN WritePtr(Alloc(heap, gor[g].ar, dstT), dest, AllocAddr(heap, gor[g].ar))
               ELSE heap
         srcAt == IF srcIsPtr THEN srcPtr ELSE src
         destAt == IF destIsPtr THEN ReadPtr(h1, dest) ELSE dest
     IN  /\ c.k = "nested"
         /\ IF nilSource(srcIsPtr, srcPtr)
              THEN gor' = StepDone(g) /\ heap' = heap
            ELSE IF Len(gor[g].stack) >= MaxDepth
              THEN gor' = [Fatal EXCEPT ![g].ret = "overflow"] /\ heap' = heap
            ELSE /\ heap' = h1
                 /\ gor' = [gor EXCEPT ![g].stack =
                              Append(@, Frame(srcT, dstT, srcAt, destAt, TRUE))]
  /\ UNCHANGED <<suite, cache, capt, ncalls, builds, faults>>

\* createBasicToStringConverter's closure is entered
ToStrEnter(g) ==
  /\ Running(g, "loop")
  /\ Top(g).i <= Len(Top(g).plan.maps)
  /\ LET f == Top(g)
         m == f.plan.maps[f.i]
     IN  /\ m.converter.k = "tostr"
         /\ gor' = SetTop(g, [f EXCEPT !.pc = "ts_test", !.csrc = f.src + m.srcOffset])
  /\ UNCHANGED <<suite, heap, cache, capt, ncalls, builds, faults>>

\* line 275: for srcType.Kind() == reflect.Ptr
ToStrTest(g) ==
  /\ Running(g, "ts_test")
  /\ LET f == Top(g)
     IN  gor' = SetTop(g, [f EXCEPT !.pc =
                   IF Kind(capt[f.plan.id][f.i]) = "ptr" THEN "ts_deref" ELSE "ts_fmt"])
  /\ UNCHANGED <<suite, heap, cache, capt, ncalls, builds, faults>>

\* lines 276-281: the pointer is loaded and followed; srcType.Elem() is
\* evaluated (it panics on a type that is no pointer)
ToStrDeref(g) ==
  /\ Running(g, "ts_deref")
  /\ LET f == Top(g)
         t == capt[f.plan.id][f.i]
         ptr == ReadPtr(heap, f.csrc)
     IN  IF ~Readable(f.csrc, 8) THEN gor' = Fault(g, f.csrc)
         ELSE IF ptr = 0 THEN gor' = StepDone(g)
         ELSE IF Kind(t) # "ptr" THEN gor' = Panic(g)
         ELSE gor' = SetTop(g, [f EXCEPT !.pc = "ts_store", !.csrc = ptr, !.ctmp = Elem(t)])
  /\ UNCHANGED <<suite, heap, cache, capt, ncalls, builds, faults>>

\* line 281: the assignment to the captured srcType
ToStrStore(g) ==
  /\ Running(g, "ts_store")
  /\ LET f == Top(g)
     IN  /\ capt' = [capt EXCEPT ![f.plan.id][f.i] = f.ctmp]
         /\ gor' = SetTop(g, [f EXCEPT !.pc = "ts_test", !.ctmp = ""])
  /\ UNCHANGED <<suite, heap, cache, ncalls, builds, faults>>

\* lines 284-309: the switch on srcType.Kind(), the load and the write
ToStrFormat(g) ==
  /\ Running(g, "ts_fmt")
  /\ LET f == Top(g)
         k == Kind(capt[f.plan.id][f.i])
         n == toStringWidth(k)
         dest == f.dst + f.plan.maps[f.i].destOffset
     IN  IF k \notin IntKinds \cup {"bool"}
           THEN gor' = StepDone(g) /\ heap' = heap
         ELSE IF ~Readable(f.csrc, n)
           THEN gor' = Fault(g, f.csrc) /\ heap' = heap
         ELSE LET bs == ReadBytes(heap, f.csrc, n)
              IN  \E b \in BoolOf(bs[1]) :
                    /\ heap' = WriteStr(heap, dest, toStringText(k, bs, b), gor[g].ar)
                    /\ gor' = StepDone(g)
  /\ UNCHANGED <<suite, cache, capt, ncalls, builds, faults>>

Step(g) ==
  \/ LoadPlan(g)
  \/ BuildPlan(g)
  \/ BeginApply(g)
  \/ Return(g)
  \/ ApplyBasic(g)
  \/ ApplyNested(g)
  \/ ToStrEnter(g)
  \/ ToStrTest(g)
  \/ ToStrDeref(g)
  \/ ToStrStore(g)
  \/ ToStrFormat(g)

Next == \E g \in Procs : CopyStruct(g) \/ Step(g)

Spec == Init /\ [][Next]_vars

(***************************************************************************)
(* What the documentation promises, stated over the calls of the model.    *)
(***************************************************************************)
Done(g) == gor[g].st = "done"
Sc(g) == ScenarioTab[gor[g].sc]
Sequential == suite \notin ConcurrentSuites

\* the destination as the caller handed it in, before the call touched it
InitialView(g) ==
  LET s == Setup(heap, gor[g].ar, gor[g].sc)
  IN  View(s.h, Sc(g).dst.t, s.dstp, ViewDepth)

\* the call before this one was the by-pointer form of this by-value call
AfterTwin(g) ==
  /\ Done(g)
  /\ Sc(g).src.form = "val"
  /\ gor[g].prev.sc # ""
  /\ ScenarioTab[gor[g].prev.sc].twin = gor[g].sc

\* C1: a record passed by value is copied like the same record passed by
\* pointer: the call returns success and leaves the destination as the
\* by-pointer call of the same source and destination values did
C1_ByValueLikeByPointer ==
  \A g \in Procs :
     AfterTwin(g) => /\ gor[g].ret = "ok"
                     /\ Outcome(g).view = gor[g].prev.view

\* a by-value call has returned after its by-pointer twin succeeded
C1_ByValueReturned ==
  \E g \in Procs : AfterTwin(g) /\ gor[g].prev.ret = "ok" /\ gor[g].ret = "panic"

\* the same call was made twice in a row by g, and both have returned
Repeated(g) == Done(g) /\ gor[g].prev.sc = gor[g].sc

\* C2: plan reuse does not alter behaviour: for pointer-to-scalar fields
\* copied into text fields, a copy made with the cached plan returns what the
\* first copy of the same source and destination values returned and leaves
\* the same destination
C2_ReuseSameResult ==
  suite = "ptrs" => \A g \in Procs : Repeated(g) => Outcome(g) = gor[g].prev

\* a second copy of pointer-to-scalar fields into text fields has returned
C2_SecondPointerCopy ==
  \E g \in Procs : Repeated(g) /\ gor[g].sc = "ptrs/set" /\ gor[g].ret = "ok"

RECURSIVE OwnText(_, _, _)
\* the text the documentation gives a text field copied from value v of type
\* t: the decimal of an integer's own value, "true"/"false" for a boolean,
\* a pointer followed to its target, and the old text when a pointer is nil
OwnText(t, v, old) ==
  IF Kind(t) = "ptr"
    THEN IF v.p = "nil" THEN old ELSE OwnText(Elem(t), v.v, old)
  ELSE IF Kind(t) = "bool" THEN FormatBool(v)
  ELSE IF Kind(t) \in SignedKinds
    THEN FormatInt(Widen(ToBytes(v, SizeTab[t]), TRUE))
  ELSE FormatUint(Widen(ToBytes(v, SizeTab[t]), FALSE))

\* the destination of text fields a solo copy of the call's source gives
TextCopy(c) ==
  [i \in 1..Len(Fields(c.src.t)) |-> OwnText(Fields(c.src.t)[i].type, c.sv[i], c.dv[i])]

\* C3: concurrent copies between the same two record types, each with its
\* own source and destination, all return success and leave each destination
\* with the values a solo copy of its own source gives
C3_ConcurrentCopiesCorrect ==
  suite \in ConcurrentSuites =>
    \A g \in Procs :
       Done(g) => gor[g].ret = "ok" /\ Outcome(g).view = TextCopy(Sc(g))

\* two copies of the same type pair overlapped and both have returned
C3_BothReturned ==
  /\ suite \in ConcurrentSuites
  /\ \A g \in Procs : Done(g) /\ gor[g].prev.sc = ""
  /\ builds[<<"Ptrs", "PtrsD">>] = 2

\* the source field In is a non-nil pointer and the destination field In a
\* nil pointer
FreshNested(c) ==
  /\ c.src.form = "ptr" /\ c.dst.form = "ptr"
  /\ Kind(Fields(c.src.t)[1].type) = "ptr" /\ c.sv[1].p = "ref"
  /\ Kind(Fields(c.dst.t)[1].type) = "ptr" /\ c.dv[1].p = "nil"

\* C4: a nested-record field whose source pointer is set and whose
\* destination pointer is nil ends pointing to a newly allocated record,
\* distinct from the source's record, also when both fields have the same
\* record type
C4_NestedFreshRecord ==
  suite = "nest" =>
    \A g \in Procs :
       Done(g) /\ FreshNested(Sc(g)) =>
         /\ gor[g].ret = "ok"
         /\ ReadPtr(heap, gor[g].dstp) # 0
         /\ ReadPtr(heap, gor[g].dstp) # ReadPtr(heap, gor[g].srcp)

\* a copy between records whose nested fields have the same pointer type has
\* returned
C4_SameTypeReturned ==
  \E g \in Procs : Done(g) /\ gor[g].sc = "nest/same" /\ gor[g].ret = "ok"

\* the source field In is a nil pointer
NilNested(c) ==
  /\ c.src.form = "ptr" /\ c.dst.form = "ptr"
  /\ Kind(Fields(c.src.t)[1].type) = "ptr" /\ c.sv[1].p = "nil"

\* C5: a copy whose nested source pointer is nil leaves the destination's
\* nested field as it was: nil stays nil, a record stays with its contents
C5_NilSourceKeepsNested ==
  suite = "nest" =>
    \A g \in Procs :
       Done(g) /\ NilNested(Sc(g)) =>
         gor[g].ret = "ok" /\ Outcome(g).view = InitialView(g)

\* a copy with a nil nested source pointer into a destination that held a
\* record of the same type has returned
C5_NilOverRecordReturned ==
  \E g \in Procs : Done(g) /\ gor[g].sc = "nest/same/nil" /\ gor[g].ret = "ok"

\* C6: an integer field copied into a text field gives the decimal text of
\* the field's own value, for every integer kind and width, negative values
\* and whatever lies next to the field
C6_DecimalOfOwnValue ==
  suite = "ints" =>
    \A g \in Procs :
       Done(g) /\ Sc(g).src.form = "ptr" =>
         gor[g].ret = "ok" /\ Outcome(g).view = TextCopy(Sc(g))

\* a copy of small positive integers of every kind has returned
C6_SmallIntsReturned ==
  \E g \in Procs : Done(g) /\ gor[g].sc = "ints/small" /\ gor[g].ret = "ok"

\* the names of the fields of record type t
FieldNames(t) == {Fields(t)[i].name : i \in 1..Len(Fields(t))}

\* C8: every destination field that has no same-named source field holds
\* after the copy the value it held before, whatever the destination's layout
C8_OtherFieldsKept ==
  suite = "frame" =>
    \A g \in Procs :
       Done(g) =>
         \A i \in 1..Len(Fields(Sc(g).dst.t)) :
            Fields(Sc(g).dst.t)[i].name \notin FieldNames(Sc(g).src.t)
              => Outcome(g).view[i] = InitialView(g)[i]

\* a copy into a destination that embeds the record holding the same-named
\* field has returned
C8_EmbeddedReturned ==
  \E g \in Procs : Done(g) /\ gor[g].sc = "frame/emb" /\ gor[g].ret = "ok"

\* the cases in which the documentation makes the call an error
ErrorCase(c) ==
  \/ c.src.form = "nil" \/ c.dst.form = "nil"
  \/ c.dst.form = "val"
  \/ c.dst.form = "nilptr"
  \/ c.dst.form = "ptr" /\ Kind(c.dst.t) # "struct"
  \/ c.src.form = "nilptr"
  \/ c.src.form \in {"ptr", "val"} /\ Kind(c.src.t) # "struct"

\* the call of g returned the argument error with its destination untouched
RejectedUntouched(g) ==
  /\ Done(g) /\ gor[g].ret = "invalid"
  /\ Sc(g).dst.form \in {"ptr", "val"} => Outcome(g).view = InitialView(g)

\* C7: in each error case CopyStruct returns the error, writes nothing to
\* the destination and adds no entry to the plan cache
C7_ErrorsLeaveNoTrace ==
  /\ [](\A g \in Procs :
          gor[g].sc # "" /\ ErrorCase(Sc(g)) => RejectedUntouched(g))
  /\ [][\A g \in Procs :
          gor'[g] # gor[g] /\ gor'[g].ret = "invalid"
            => cache' = cache /\ builds' = builds]_vars

\* a call with a nil typed source pointer was rejected after an earlier call
\* had stored a plan
C7_RejectedAfterCopy ==
  \E g \in Procs :
     /\ gor[g].sc = "inv/srcnilptr" /\ RejectedUntouched(g)
     /\ gor[g].prev.ret = "ok"
     /\ DOMAIN cache = {<<"SrcN", "Base">>}

Completed(k) == Count(builds, k) - Count(faults, k)

\* every frame past the lookup executes the plan stored for its pair
UsesStoredPlan ==
  \A g \in Procs : \A i \in 1..Len(gor[g].stack) :
     LET f == gor[g].stack[i]
         k == <<f.srcT, f.dstT>>
     IN  f.pc \notin {"load", "build"} => k \in DOMAIN cache /\ f.plan = cache[k]

Cyclic == MaxDepth + 100

RECURSIVE Chain(_, _)
\* the number of records on the longest path of non-nil nested-record links
\* from the record v of type t, Cyclic or more when a link leads back
Chain(t, v) ==
  LET below(i) ==
        LET ft == Fields(t)[i].type
        IN  IF Kind(ft) = "struct" THEN Chain(ft, v[i])
            ELSE IF Kind(ft) = "ptr" /\ Kind(Elem(ft)) = "struct"
              THEN IF v[i].p = "nil" THEN 0
                   ELSE IF v[i].p = "self" THEN Cyclic
                   ELSE Chain(Elem(ft), v[i].v)
            ELSE 0
      RECURSIVE most(_)
      most(i) == IF i = 0 THEN 0
                 ELSE IF below(i) >= most(i - 1) THEN below(i) ELSE most(i - 1)
  IN  1 + most(Len(Fields(t)))

\* the source of the call is a record whose nested links do not lead back
Acyclic(c) ==
  /\ c.src.form \in {"ptr", "val"} /\ Kind(c.src.t) = "struct"
  /\ Chain(c.src.t, c.sv) < Cyclic

\* every goroutine that can take a step eventually takes one
FairSpec == Spec /\ \A g \in Procs : WF_vars(Step(g))

\* C10: a call whose source links are finite and acyclic returns, having
\* made at most one recursive copy per non-nil nested source link
C10_AcyclicTerminates ==
  /\ [](\A g \in Procs :
          gor[g].st = "run" /\ Acyclic(Sc(g))
            => Len(gor[g].stack) <= Chain(Sc(g).src.t, Sc(g).sv))
  /\ \A g \in Procs :
        [](gor[g].st = "run" /\ Acyclic(Sc(g))
             => <>(Done(g) /\ gor[g].ret # "overflow"))

\* the copy of a three-record list of a self-referential type has returned
C10_ListCopied ==
  \E g \in Procs :
     /\ Done(g) /\ gor[g].sc = "list/3" /\ gor[g].ret = "ok"
     /\ Outcome(g).view[2][1] = "ref" /\ Outcome(g).view[2][2][2][1] = "ref"

=============================================================================
